---- MODULE Spec2Model ----
(***************************************************************************)
(* Model of NeuralNetworkTuningOptimal/hyperparameter_tuning.ipynb.        *)
(*                                                                         *)
(* The notebook is a sequence of cells that call into Keras 2.3 and        *)
(* scikit-learn.  Each definition below models the cell lines named in     *)
(* MODEL_MAP.json; a library call is modelled by what the call does for    *)
(* the arguments the cell passes (GridSearchCV.fit: ParameterGrid, KFold,  *)
(* joblib dispatch, _format_results, refit; Sequential.fit: the epoch loop *)
(* and its callbacks).                                                     *)
(*                                                                         *)
(* Numbers.  Fold scores are small integers (accuracy in equal steps).     *)
(* mean_test_score is kept multiplied by n_splits and                      *)
(* std_test_score as (n_splits * std)^2; both scalings are strictly        *)
(* monotonic, so order and equality of means and of deviations are kept.   *)
(***************************************************************************)
EXTENDS Integers, Sequences, FiniteSets, TLC

VARIABLES
    x_train,          \* training features: a sequence of rows
    y_train,          \* training labels: a sequence of one-hot rows
    x_test,           \* validation features
    y_test,           \* validation labels
    prep,             \* how far the data preparation cells have run
    raw,              \* history: the four arrays as mnist.load_data() returned them
    search,           \* which grid-search cell runs: 1 (create_model) or 2 (create_model_2)
    param_grid,       \* the dict handed to GridSearchCV, in insertion order
    cv,               \* GridSearchCV(cv=...)
    phase,            \* position inside grid.fit and the report cell
    candidate_params, \* list(ParameterGrid(param_grid))
    splits,           \* list(cv.split(X, y)): records [train, test]
    trials,           \* per (candidate, fold) trial: [status, model]
    out,              \* per trial: the fold score, NoScore until recorded
    models,           \* live predictors: model id -> weights
    built,            \* the model ids returned by the builder, in call order
    cv_results_,      \* [params, mean_test_score, std_test_score, rank_test_score]
    best_index_,
    best_estimator_,
    printed,          \* the lines of the report cell
    reordered,        \* history: some trial finished before an earlier-dispatched one
    fit,              \* the Sequential.fit call of a training cell: see FitIdle
    cell,             \* how many code cells of CellOrder have been started
    names,            \* the notebook's global names that hold models
    files,            \* the working directory: file name -> content
    log               \* history: the fits, searches and saves started, in order

dataVars == <<x_train, y_train, x_test, y_test, prep, raw>>
gridVars == <<search, param_grid, cv>>
trialVars == <<candidate_params, splits, trials, out, reordered>>
modelVars == <<models, built>>
resultVars == <<cv_results_, best_index_, best_estimator_, printed>>
fitVars == <<fit>>
bookVars == <<cell, names, files, log>>
vars == <<dataVars, gridVars, trialVars, modelVars, resultVars, phase, fitVars, bookVars>>

----------------------------------------------------------------------------
(* Bounds of the model *)

MaxValues == 2      \* candidate values kept per hyperparameter
MaxFolds == 3       \* largest cv
MaxSamples == 4     \* rows of the training set
MaxTrials == 8      \* largest number of (candidate, fold) trials of one search
MaxSelectTrials == 6 \* largest number of trials of a selection run
MaxSelectScore == 2 \* fold scores of a selection run are 0..MaxSelectScore
CpuCount == 2       \* workers behind n_jobs=-1
MaxFitRows == 15    \* largest training set of a step-by-step fit
MaxBookTrials == 4  \* largest number of trials of a search of a notebook run
MaxRawSamples == 2  \* largest number of images of the raw training set
MaxSessionOps == 2  \* cells or lines run again by hand in one session

(* Program constants *)

num_classes == 10

NoScore == -1
NoModel == 0
\* a trial of a driver run scores low or high
Scores == {0, 1}

----------------------------------------------------------------------------
(* Small helpers *)

RECURSIVE SumSeq(_)
SumSeq(s) == IF s = <<>> THEN 0 ELSE Head(s) + SumSeq(Tail(s))

RECURSIVE Flatten(_)
Flatten(ss) == IF ss = <<>> THEN <<>> ELSE Head(ss) \o Flatten(Tail(ss))

Prefix(s, n) == SubSeq(s, 1, IF n < Len(s) THEN n ELSE Len(s))

----------------------------------------------------------------------------
(* The prepared dataset *)

OneHot(label) == [c \in 1 .. num_classes |-> IF c = label + 1 THEN 1 ELSE 0]

PreparedX(n) == [i \in 1 .. n |-> <<i % 2, (i \div 2) % 2>>]

PreparedY(n) == [i \in 1 .. n |-> OneHot(i % num_classes)]

\* the validation split and the preparation state the later cells find
TestPrepared ==
    /\ x_test = PreparedX(1)
    /\ y_test = PreparedY(1)
    /\ prep = "encoded"
    /\ raw = <<>>

----------------------------------------------------------------------------
(* The two grids of the notebook *)

InitModes == <<"uniform", "lecun_uniform", "normal", "zero",
               "glorot_normal", "glorot_uniform", "he_normal", "he_uniform">>

ParamGrid1 == << <<"init_mode", InitModes>> >>

ParamGrid2 == << <<"epochs", <<10, 20>> >>,
                 <<"batch_size", <<128, 512>> >>,
                 <<"init", <<"glorot_uniform", "uniform">> >> >>

\* n_jobs=-1 in the first search, the default (one worker) in the second
Workers(s) == IF s = 1 THEN CpuCount ELSE 1

\* the sk_params given to KerasClassifier itself
EstimatorDefaults(s) ==
    IF s = 1 THEN << <<"epochs", 10>>, <<"batch_size", 128>> >> ELSE <<>>

----------------------------------------------------------------------------
(* ParameterGrid: sorted keys, itertools.product of the value lists *)

KeyOrder == <<"batch_size", "epochs", "init", "init_mode">>

KeyRank(k) == CHOOSE i \in 1 .. Len(KeyOrder) : KeyOrder[i] = k

SortedItems(grid) ==
    LET n == Len(grid)
        pos(i) == 1 + Cardinality({j \in 1 .. n :
                                     KeyRank(grid[j][1]) < KeyRank(grid[i][1])})
    IN  [p \in 1 .. n |-> grid[CHOOSE i \in 1 .. n : pos(i) = p]]

RECURSIVE Product(_)
Product(items) ==
    IF items = <<>> THEN << <<>> >>
    ELSE LET name == Head(items)[1]
             values == Head(items)[2]
             rest == Product(Tail(items))
         IN  Flatten([v \in 1 .. Len(values) |->
                        [r \in 1 .. Len(rest) |-> << <<name, values[v]>> >> \o rest[r]]])

\* a grid that pairs the value lists position by position instead of crossing them
ParameterGridZipped(grid) ==
    LET items == SortedItems(grid)
        n == CHOOSE m \in 0 .. 8 :
                /\ \A i \in 1 .. Len(items) : m <= Len(items[i][2])
                /\ \E i \in 1 .. Len(items) : m = Len(items[i][2])
    IN  [v \in 1 .. n |-> [i \in 1 .. Len(items) |-> <<items[i][1], items[i][2][v]>>]]

ParameterGrid(grid) == Product(SortedItems(grid))

GridSize(grid) ==
    LET RECURSIVE Mul(_)
        Mul(g) == IF g = <<>> THEN 1 ELSE Len(Head(g)[2]) * Mul(Tail(g))
    IN  Mul(grid)

HasParam(cfg, name) == \E i \in 1 .. Len(cfg) : cfg[i][1] = name

Param(cfg, name) == cfg[CHOOSE i \in 1 .. Len(cfg) : cfg[i][1] = name][2]

----------------------------------------------------------------------------
(* KFold(n_splits=cv), no shuffling: the first n % k folds get one more *)

FoldSize(n, k, f) == (n \div k) + (IF f <= n % k THEN 1 ELSE 0)

\* a split that starts every fold at a multiple of n // k
FoldStartEven(n, k, f) == (f - 1) * (n \div k)

FoldStart(n, k, f) == SumSeq([g \in 1 .. f - 1 |-> FoldSize(n, k, g)])

TestIndices(n, k, f) == (FoldStart(n, k, f) + 1) .. (FoldStart(n, k, f) + FoldSize(n, k, f))

TrainIndices(n, k, f) == (1 .. n) \ TestIndices(n, k, f)

KFoldSplit(n, k) ==
    [f \in 1 .. k |-> [train |-> TrainIndices(n, k, f), test |-> TestIndices(n, k, f)]]

----------------------------------------------------------------------------
(* Trials: product(candidate_params, splits), candidate-major *)

NCand == Len(candidate_params)
NSplits == Len(splits)
NTrials == NCand * NSplits
TrialOf(c, f) == (c - 1) * NSplits + f
CandOf(t) == ((t - 1) \div NSplits) + 1
FoldOf(t) == ((t - 1) % NSplits) + 1

Running == {t \in DOMAIN trials : trials[t].status = "fitted"}
Pending == {t \in DOMAIN trials : trials[t].status = "pending"}

\* a driver that aggregates as soon as every task has been handed out
AllTrialsDispatched == \A t \in DOMAIN trials : trials[t].status # "pending"

AllTrialsDone == \A t \in DOMAIN trials : trials[t].status = "done"

----------------------------------------------------------------------------
(* Model Builder: create_model / create_model_2 *)

\* a builder that hands out one cached network
SharedModelId == IF built = <<>> THEN 1 ELSE built[1]

\* Sequential(): a new object, never one handed out before
NewModelId == Len(built) + 1

InitOf(s, cfg) ==
    IF s = 1
    THEN (IF HasParam(cfg, "init_mode") THEN Param(cfg, "init_mode") ELSE "uniform")
    ELSE (IF HasParam(cfg, "init") THEN Param(cfg, "init") ELSE "glorot_uniform")

create_model(s, cfg) ==
    [init |-> InitOf(s, cfg), optimizer |-> "rmsprop", epochs_run |-> 0, seen |-> {}]

\* the epochs KerasClassifier.fit passes on: the grid value, else the estimator's
EpochsOf(s, cfg) ==
    IF HasParam(cfg, "epochs") THEN Param(cfg, "epochs")
    ELSE IF HasParam(EstimatorDefaults(s), "epochs")
         THEN Param(EstimatorDefaults(s), "epochs")
         ELSE 1

\* Sequential.fit on the rows idx: the weights of this one predictor move
Fit(w, s, cfg, idx) ==
    [w EXCEPT !.epochs_run = @ + EpochsOf(s, cfg), !.seen = @ \cup idx]

----------------------------------------------------------------------------
(* _format_results *)

FoldScores(o, k, c) == [f \in 1 .. k |-> o[(c - 1) * k + f]]

MeanScore(o, k, c) == SumSeq(FoldScores(o, k, c))

StdScore(o, k, c) ==
    LET s == FoldScores(o, k, c)
    IN  k * SumSeq([f \in 1 .. k |-> s[f] * s[f]]) - SumSeq(s) * SumSeq(s)

\* ranks in ascending order of the mean
RankOfAscending(means, c) == 1 + Cardinality({d \in DOMAIN means : means[d] < means[c]})

\* rankdata(-means, method='min')
RankOf(means, c) == 1 + Cardinality({d \in DOMAIN means : means[d] > means[c]})

FormatResults(cands, o, k) ==
    LET means == [c \in 1 .. Len(cands) |-> MeanScore(o, k, c)]
    IN  [params |-> cands,
         mean_test_score |-> means,
         std_test_score |-> [c \in 1 .. Len(cands) |-> StdScore(o, k, c)],
         rank_test_score |-> [c \in 1 .. Len(cands) |-> RankOf(means, c)]]

\* an argmin that keeps the last index holding the smallest rank
BestIndexLast(res) ==
    LET r == res.rank_test_score
    IN  CHOOSE c \in DOMAIN r :
            /\ \A d \in DOMAIN r : r[c] <= r[d]
            /\ \A d \in DOMAIN r : d > c => r[d] > r[c]

\* rank_test_score.argmin(): the first index holding the smallest rank
BestIndex(res) ==
    LET r == res.rank_test_score
    IN  CHOOSE c \in DOMAIN r :
            /\ \A d \in DOMAIN r : r[c] <= r[d]
            /\ \A d \in DOMAIN r : d < c => r[d] > r[c]

NoResults == [params |-> <<>>, mean_test_score |-> <<>>,
              std_test_score |-> <<>>, rank_test_score |-> <<>>]

----------------------------------------------------------------------------
(* Learning rates are fixed-point numbers: LrScale stands for 1.0.  float32 *)
(* keeps 0.1 and smaller to better than 1e-8, below this resolution.        *)

LrScale == 1000000

input_dim == 784

NoLr == -1

\* a * b in fixed point, without leaving 32 bits
MulFix(a, b) == (a * (b \div 1000)) \div 1000 + (a * (b % 1000)) \div 1000000

\* e^(-0.1) in fixed point
ExpMinusTenth == 904837

\* e^(-k/10) by repeated squaring
RECURSIVE ExpMinusTenths(_)
ExpMinusTenths(k) ==
    IF k <= 0 THEN LrScale
    ELSE LET half == ExpMinusTenths(k \div 2)
             sq == MulFix(half, half)
         IN  IF k % 2 = 1 THEN MulFix(sq, ExpMinusTenth) ELSE sq

\* np.exp(-x) for the x the schedule passes, the multiples of 0.1
NpExpNeg(x) == ExpMinusTenths(x \div (LrScale \div 10))

\* the globals of the solution cell, read by exp_decay when it is called
learning_rate == LrScale \div 10
decay_rate == LrScale \div 10

exp_decay(epoch) == MulFix(learning_rate, NpExpNeg(decay_rate * epoch))

SGD(lr, momentum, decay) ==
    [name |-> "sgd", lr |-> lr, momentum |-> momentum, decay |-> decay,
     iterations |-> 0, applied |-> NoLr]

RMSprop(lr, decay) ==
    [name |-> "rmsprop", lr |-> lr, momentum |-> 0, decay |-> decay,
     iterations |-> 0, applied |-> NoLr]

FitRuns == {"lr_model", "exponential_decay_model", "model"}

\* epochs, batch_size, optimizer and callbacks of the three training cells
RunConfig(run) ==
    CASE run = "lr_model" ->
           [epochs |-> 10, batch_size |-> input_dim \div 100,
            optimizer |-> SGD(LrScale \div 10, 8 * (LrScale \div 10),
                              (LrScale \div 10) \div 10),
            callbacks |-> <<>>]
      [] run = "exponential_decay_model" ->
           [epochs |-> 60, batch_size |-> 196,
            optimizer |-> SGD(learning_rate, 8 * (LrScale \div 10), decay_rate),
            callbacks |-> <<"loss_history", "lr_rate">>]
      [] run = "model" ->
           [epochs |-> 60, batch_size |-> input_dim,
            optimizer |-> RMSprop(LrScale \div 1000, 0),
            callbacks |-> <<>>]

\* the network of a training cell: three Dense layers, 'uniform' initializer
SequentialUniform(opt) ==
    [init |-> "uniform", optimizer |-> opt, epochs_run |-> 0, seen |-> {}]

FitIdle ==
    [run |-> "none", pc |-> "idle", epochs |-> 0, batch_size |-> 1, steps |-> 0,
     epoch |-> 0, batch |-> 0, optimizer |-> SGD(0, 0, 0), callbacks |-> <<>>,
     histories |-> <<>>, returned |-> "none", model |-> NoModel]

\* the state a training cell finds: model m compiled, History() objects of the
\* cell created, nothing fitted
FitReady(run, m) ==
    [run |-> run, pc |-> "ready",
     epochs |-> RunConfig(run).epochs,
     batch_size |-> RunConfig(run).batch_size,
     steps |-> 0, epoch |-> 0, batch |-> 0,
     optimizer |-> RunConfig(run).optimizer,
     callbacks |-> <<>>,
     histories |-> IF run = "exponential_decay_model"
                   THEN ("loss_history" :> <<>>) ELSE <<>>,
     returned |-> "none",
     model |-> m]

CeilDiv(a, b) == (a + b - 1) \div b

\* a fit that takes the History it was given as its own and registers it again
FitCallbacksReused(user) == user \o <<"loss_history">>

\* fit: the callbacks passed, then the History fit creates for itself
FitCallbacks(user) == user \o <<"history">>

HasCallback(f, name) == \E i \in 1 .. Len(f.callbacks) : f.callbacks[i] = name

\* fit(...) up to the first epoch: callbacks configured, on_train_begin
TrainBegin(f, rows) ==
    LET cbs == FitCallbacks(RunConfig(f.run).callbacks)
        own == cbs[Len(cbs)]
    IN  [f EXCEPT !.pc = IF f.epochs > 0 THEN "epoch_begin" ELSE "done",
                  !.callbacks = cbs,
                  !.steps = CeilDiv(rows, f.batch_size),
                  !.epoch = 0,
                  !.batch = 0,
                  !.histories = [h \in DOMAIN f.histories \cup {own} |-> <<>>],
                  !.returned = IF f.epochs > 0 THEN "none" ELSE own]

\* an epoch start that never calls the schedule
EpochBeginUnscheduled(f) == [f EXCEPT !.pc = "batches", !.batch = 0]

\* callbacks.on_epoch_begin(epoch): LearningRateScheduler sets optimizer.lr
EpochBegin(f) ==
    [f EXCEPT !.pc = "batches",
              !.batch = 0,
              !.optimizer.lr = IF HasCallback(f, "lr_rate") THEN exp_decay(f.epoch) ELSE @]

\* an optimizer that never applies its decay argument
EffectiveLrUndecayed(opt) == opt.lr

\* the step size of one update: lr * 1 / (1 + decay * iterations)
EffectiveLr(opt) ==
    IF opt.decay > 0
    THEN (opt.lr * 1000) \div ((LrScale + opt.decay * opt.iterations) \div 1000)
    ELSE opt.lr

BatchRows(f, rows) ==
    {i \in 1 .. rows : f.batch * f.batch_size < i /\ i <= (f.batch + 1) * f.batch_size}

\* a schedule that is also applied after every batch
TrainBatchRescheduled(f) ==
    [f EXCEPT !.batch = @ + 1,
              !.optimizer.applied = EffectiveLr(f.optimizer),
              !.optimizer.iterations = @ + 1,
              !.optimizer.lr = IF HasCallback(f, "lr_rate")
                               THEN exp_decay(f.epoch + 1) ELSE @]

\* one batch: one optimizer update on the rows of the batch
TrainBatch(f) ==
    [f EXCEPT !.batch = @ + 1,
              !.optimizer.applied = EffectiveLr(f.optimizer),
              !.optimizer.iterations = @ + 1]

\* callbacks.on_epoch_end(epoch, logs), callback by callback in list order
RECURSIVE OnEpochEnd(_, _, _, _, _)
OnEpochEnd(cbs, epoch, logs, opt, hs) ==
    IF cbs = <<>> THEN hs
    ELSE IF Head(cbs) = "lr_rate"
         THEN OnEpochEnd(Tail(cbs), epoch, [logs EXCEPT !.lr = opt.lr], opt, hs)
         ELSE OnEpochEnd(Tail(cbs), epoch, logs, opt,
                         [hs EXCEPT ![Head(cbs)] =
                             Append(@, [epoch |-> epoch, lr |-> logs.lr, val |-> logs.val])])

\* end of a pass: validation, on_epoch_end, next epoch or on_train_end
EpochEnd(f) ==
    LET last == f.epoch + 1 >= f.epochs
    IN  [f EXCEPT !.pc = IF last THEN "done" ELSE "epoch_begin",
                  !.histories = OnEpochEnd(f.callbacks, f.epoch,
                                           [lr |-> NoLr, val |-> TRUE], f.optimizer, @),
                  !.epoch = @ + 1,
                  !.returned = IF last THEN f.callbacks[Len(f.callbacks)] ELSE @]

----------------------------------------------------------------------------
(* The grids and datasets the searches are run on *)

SubGrid(grid, lens) ==
    [i \in 1 .. Len(grid) |-> <<grid[i][1], Prefix(grid[i][2], lens[i])>>]

Grids(s) ==
    IF s = 1
    THEN {SubGrid(ParamGrid1, <<a>>) : a \in 1 .. MaxValues}
    ELSE {SubGrid(ParamGrid2, <<a, b, c>>) :
            a \in 1 .. MaxValues, b \in 1 .. MaxValues, c \in 1 .. MaxValues}

GlobalNames == {"lr_model", "exponential_decay_model", "model", "model_from_json"}

Unbound == [kind |-> "unbound", id |-> NoModel]

\* no notebook cell has run
BookIdle ==
    /\ cell = 0
    /\ names = [n \in GlobalNames |-> Unbound]
    /\ files = <<>>
    /\ log = <<>>

SearchIdle ==
    /\ candidate_params = <<>>
    /\ splits = <<>>
    /\ trials = <<>>
    /\ out = <<>>
    /\ reordered = FALSE
    /\ cv_results_ = NoResults
    /\ best_index_ = 0
    /\ best_estimator_ = NoModel
    /\ printed = <<>>

Init ==
    /\ fit = FitIdle
    /\ BookIdle
    /\ phase = "new"
    /\ search \in {1, 2}
    /\ param_grid \in Grids(search)
    /\ cv \in 2 .. MaxFolds
    /\ GridSize(param_grid) * cv <= MaxTrials
    /\ x_train = PreparedX(MaxSamples)
    /\ y_train = PreparedY(MaxSamples)
    /\ TestPrepared
    /\ models = <<>>
    /\ built = <<>>
    /\ SearchIdle

----------------------------------------------------------------------------
(* grid.fit(x_train, y_train) *)

\* _check_param_grid: a hyperparameter listed with no value to try
EmptyValues(grid) == \E i \in 1 .. Len(grid) : grid[i][2] = <<>>

\* a check that lets a single fold through
CvAcceptedFromOne(k) == k >= 1

\* check_cv -> KFold(n_splits=k): at least one train/test split
CvAccepted(k) == k >= 2

\* check_cv, ParameterGrid and the task list
GridFitStart ==
    /\ phase = "new"
    /\ ~EmptyValues(param_grid)
    /\ CvAccepted(cv)
    /\ candidate_params' = ParameterGrid(param_grid)
    /\ splits' = KFoldSplit(Len(x_train), cv)
    /\ trials' = [t \in 1 .. Len(ParameterGrid(param_grid)) * cv |->
                    [status |-> "pending", model |-> NoModel]]
    /\ out' = [t \in 1 .. Len(ParameterGrid(param_grid)) * cv |-> NoScore]
    /\ phase' = "running"
    /\ UNCHANGED reordered
    /\ UNCHANGED <<bookVars, fitVars, dataVars, gridVars, modelVars, resultVars>>

\* a trial that shuffles the shared arrays in place before fitting
TrialFitInPlace(t) ==
    /\ phase = "running"
    /\ t \in Pending
    /\ \A u \in Pending : t <= u
    /\ Cardinality(Running) < Workers(search)
    /\ x_train' = [i \in 1 .. Len(x_train) |-> x_train[Len(x_train) + 1 - i]]
    /\ y_train' = [i \in 1 .. Len(y_train) |-> y_train[Len(y_train) + 1 - i]]
    /\ UNCHANGED <<x_test, y_test, prep, raw>>
    /\ models' = (NewModelId :>
                    Fit(create_model(search, candidate_params[CandOf(t)]), search,
                        candidate_params[CandOf(t)], splits[FoldOf(t)].train)) @@ models
    /\ built' = Append(built, NewModelId)
    /\ trials' = [trials EXCEPT ![t] = [status |-> "fitted", model |-> NewModelId]]
    /\ UNCHANGED <<bookVars, fitVars, gridVars, candidate_params, splits, out, reordered, resultVars, phase>>

\* a free worker takes the next task: clone(estimator).set_params(**params), then
\* estimator.fit(X[train], y[train]), which calls build_fn and fits what it returns
TrialFit(t) ==
    /\ phase = "running"
    /\ t \in Pending
    /\ \A u \in Pending : t <= u
    /\ Cardinality(Running) < Workers(search)
    /\ models' = (NewModelId :>
                    Fit(create_model(search, candidate_params[CandOf(t)]), search,
                        candidate_params[CandOf(t)], splits[FoldOf(t)].train)) @@ models
    /\ built' = Append(built, NewModelId)
    /\ trials' = [trials EXCEPT ![t] = [status |-> "fitted", model |-> NewModelId]]
    /\ UNCHANGED <<bookVars, fitVars, dataVars, gridVars, candidate_params, splits, out, reordered,
                   resultVars, phase>>

\* estimator.score(X[test], y[test]); the fitted clone is dropped with the task
TrialScore(t, s) ==
    /\ phase = "running"
    /\ t \in DOMAIN trials
    /\ trials[t].status = "fitted"
    /\ out' = [out EXCEPT ![t] = s]
    /\ models' = [m \in DOMAIN models \ {trials[t].model} |-> models[m]]
    /\ trials' = [trials EXCEPT ![t].status = "done"]
    /\ reordered' = (reordered \/ \E u \in Running : u < t)
    /\ UNCHANGED <<bookVars, fitVars, dataVars, gridVars, candidate_params, splits, built, resultVars, phase>>

\* Parallel(...) has returned every task: _format_results, best_index_
GridFormat ==
    /\ phase = "running"
    /\ AllTrialsDone
    /\ cv_results_' = FormatResults(candidate_params, out, NSplits)
    /\ best_index_' = BestIndex(FormatResults(candidate_params, out, NSplits))
    /\ phase' = "formatted"
    /\ UNCHANGED <<bookVars, fitVars, dataVars, gridVars, trialVars, modelVars, best_estimator_, printed>>

\* a builder that declares its network global: the refit rebinds the name model
RefitBuildGlobal ==
    /\ phase = "formatted"
    /\ models' = (NewModelId :> create_model(search, candidate_params[best_index_])) @@ models
    /\ built' = Append(built, NewModelId)
    /\ best_estimator_' = NewModelId
    /\ phase' = "refit"
    /\ names' = [names EXCEPT !["model"] = [kind |-> "model", id |-> NewModelId]]
    /\ UNCHANGED <<cell, files, log, fitVars, dataVars, gridVars, trialVars, cv_results_,
                   best_index_, printed>>

\* refit=True: clone(estimator).set_params(**best_params_), then fit on all rows
RefitBuild ==
    /\ phase = "formatted"
    /\ models' = (NewModelId :> create_model(search, candidate_params[best_index_])) @@ models
    /\ built' = Append(built, NewModelId)
    /\ best_estimator_' = NewModelId
    /\ phase' = "refit"
    /\ UNCHANGED <<bookVars, fitVars, dataVars, gridVars, trialVars, cv_results_, best_index_, printed>>

RefitTrain ==
    /\ phase = "refit"
    /\ models' = [models EXCEPT ![best_estimator_] =
                     Fit(@, search, candidate_params[best_index_], 1 .. Len(x_train))]
    /\ phase' = "fitted"
    /\ UNCHANGED <<bookVars, fitVars, dataVars, gridVars, trialVars, built, resultVars>>

\* the report cell: best line, then one line per zip(means, stds, params)
PrintResults ==
    /\ phase = "fitted"
    /\ printed' =
         << [best_score |-> cv_results_.mean_test_score[best_index_],
             best_params |-> cv_results_.params[best_index_]] >>
         \o [c \in 1 .. Len(cv_results_.params) |->
               [mean |-> cv_results_.mean_test_score[c],
                std |-> cv_results_.std_test_score[c],
                param |-> cv_results_.params[c]]]
    /\ phase' = "reported"
    /\ UNCHANGED <<bookVars, fitVars, dataVars, gridVars, trialVars, modelVars, cv_results_, best_index_,
                   best_estimator_>>

Next ==
    \/ GridFitStart
    \/ \E t \in 1 .. MaxTrials + 1 : TrialFit(t)
    \/ \E t \in 1 .. MaxTrials + 1, s \in Scores : TrialScore(t, s)
    \/ GridFormat
    \/ RefitBuild
    \/ RefitTrain
    \/ PrintResults

Spec == Init /\ [][Next]_vars

----------------------------------------------------------------------------
(* Searches on configurations the notebook does not use: a grid without      *)
(* hyperparameters, a hyperparameter without values, cv below 2              *)

\* GridSearchCV(...) / grid.fit raise ValueError before any task is made
GridFitError ==
    /\ phase = "new"
    /\ EmptyValues(param_grid) \/ ~CvAccepted(cv)
    /\ phase' = "error"
    /\ UNCHANGED <<bookVars, fitVars, dataVars, gridVars, trialVars, modelVars, resultVars>>

ConfigGrids(s) ==
    {<<>>} \cup
    (IF s = 1
     THEN {SubGrid(ParamGrid1, <<a>>) : a \in 0 .. MaxValues}
     ELSE {SubGrid(ParamGrid2, <<a, b, c>>) :
             a \in 0 .. MaxValues, b \in 0 .. MaxValues, c \in 0 .. MaxValues})

InitConfig ==
    /\ fit = FitIdle
    /\ BookIdle
    /\ phase = "new"
    /\ search \in {1, 2}
    /\ param_grid \in ConfigGrids(search)
    /\ cv \in 0 .. MaxFolds
    /\ GridSize(param_grid) * cv <= MaxTrials
    /\ x_train = PreparedX(MaxSamples)
    /\ y_train = PreparedY(MaxSamples)
    /\ TestPrepared
    /\ models = <<>>
    /\ built = <<>>
    /\ SearchIdle

NextConfig ==
    \/ GridFitStart
    \/ GridFitError
    \/ \E t \in 1 .. MaxTrials + 1 : TrialFit(t)
    \/ \E t \in 1 .. MaxTrials + 1, s \in Scores : TrialScore(t, s)
    \/ GridFormat
    \/ RefitBuild
    \/ RefitTrain
    \/ PrintResults

SpecConfig == InitConfig /\ [][NextConfig]_vars

----------------------------------------------------------------------------
(* Selection runs: grid.fit from the point where Parallel(...) has returned, *)
(* for every table of fold scores                                            *)

InitSelect ==
    /\ fit = FitIdle
    /\ BookIdle
    /\ search \in {1, 2}
    /\ param_grid \in Grids(search)
    /\ cv \in 2 .. MaxFolds
    /\ GridSize(param_grid) * cv <= MaxSelectTrials
    /\ x_train = PreparedX(MaxSamples)
    /\ y_train = PreparedY(MaxSamples)
    /\ TestPrepared
    /\ phase = "running"
    /\ candidate_params = ParameterGrid(param_grid)
    /\ splits = KFoldSplit(MaxSamples, cv)
    /\ trials = [t \in 1 .. Len(ParameterGrid(param_grid)) * cv |->
                   [status |-> "done", model |-> t]]
    /\ out \in [1 .. Len(ParameterGrid(param_grid)) * cv -> 0 .. MaxSelectScore]
    /\ reordered = FALSE
    /\ models = <<>>
    /\ built = [t \in 1 .. Len(ParameterGrid(param_grid)) * cv |-> t]
    /\ cv_results_ = NoResults
    /\ best_index_ = 0
    /\ best_estimator_ = NoModel
    /\ printed = <<>>

NextSelect ==
    \/ GridFormat
    \/ RefitBuild
    \/ RefitTrain
    \/ PrintResults

SpecSelect == InitSelect /\ [][NextSelect]_vars

----------------------------------------------------------------------------
(* Training cells: <model>.fit(x_train, y_train, ...) step by step *)

FitStart ==
    /\ fit.pc = "ready"
    /\ fit' = TrainBegin(fit, Len(x_train))
    /\ UNCHANGED <<bookVars, dataVars, gridVars, trialVars, modelVars, resultVars, phase>>

FitEpochBegin ==
    /\ fit.pc = "epoch_begin"
    /\ fit' = EpochBegin(fit)
    /\ UNCHANGED <<bookVars, dataVars, gridVars, trialVars, modelVars, resultVars, phase>>

FitBatch ==
    /\ fit.pc = "batches"
    /\ fit.batch < fit.steps
    /\ fit' = TrainBatch(fit)
    /\ models' = [models EXCEPT ![fit.model].seen = @ \cup BatchRows(fit, Len(x_train))]
    /\ UNCHANGED <<bookVars, dataVars, gridVars, trialVars, built, resultVars, phase>>

FitEpochEnd ==
    /\ fit.pc = "batches"
    /\ fit.batch = fit.steps
    /\ fit' = EpochEnd(fit)
    /\ models' = [models EXCEPT ![fit.model].epochs_run = @ + 1]
    /\ UNCHANGED <<bookVars, dataVars, gridVars, trialVars, built, resultVars, phase>>

InitFit ==
    /\ \E run \in FitRuns :
          /\ fit = FitReady(run, 1)
          /\ models = (1 :> SequentialUniform(RunConfig(run).optimizer.name))
    /\ built = <<1>>
    /\ \E n \in (1 .. MaxFitRows) \cup {fit.batch_size + 1} :
          /\ x_train = PreparedX(n)
          /\ y_train = PreparedY(n)
          /\ TestPrepared
    /\ BookIdle
    /\ search = 0
    /\ param_grid = <<>>
    /\ cv = 0
    /\ phase = "none"
    /\ SearchIdle

NextFit ==
    \/ FitStart
    \/ FitEpochBegin
    \/ FitBatch
    \/ FitEpochEnd

SpecFit == InitFit /\ [][NextFit]_vars

----------------------------------------------------------------------------
(* The notebook run top to bottom: the code cells that build, train, search  *)
(* and save, in document order                                               *)

CellOrder ==
    << [kind |-> "build", run |-> "lr_model", search |-> 0],
       [kind |-> "fit", run |-> "lr_model", search |-> 0],
       [kind |-> "build", run |-> "exponential_decay_model", search |-> 0],
       [kind |-> "fit", run |-> "exponential_decay_model", search |-> 0],
       [kind |-> "build", run |-> "model", search |-> 0],
       [kind |-> "fit", run |-> "model", search |-> 0],
       [kind |-> "search", run |-> "none", search |-> 1],
       [kind |-> "save", run |-> "none", search |-> 0],
       [kind |-> "search", run |-> "none", search |-> 2] >>

\* the cell before has returned: its fit is over, its search is reported
CellDone == fit.pc \in {"idle", "done"} /\ phase \in {"none", "reported"}

NextCellIs(kind) ==
    /\ cell < Len(CellOrder)
    /\ CellDone
    /\ CellOrder[cell + 1].kind = kind

\* <run> = Sequential(); add(Dense...); compile(optimizer=...)
BuildCell ==
    /\ NextCellIs("build")
    /\ models' = (NewModelId :>
                    SequentialUniform(RunConfig(CellOrder[cell + 1].run).optimizer.name))
                 @@ models
    /\ built' = Append(built, NewModelId)
    /\ names' = [names EXCEPT ![CellOrder[cell + 1].run] = [kind |-> "model", id |-> NewModelId]]
    /\ cell' = cell + 1
    /\ UNCHANGED <<files, log, fitVars, dataVars, gridVars, trialVars, resultVars, phase>>

\* <run>.fit(x_train, y_train, ...): the call is entered
FitCell ==
    /\ NextCellIs("fit")
    /\ names[CellOrder[cell + 1].run].kind = "model"
    /\ fit' = FitReady(CellOrder[cell + 1].run, names[CellOrder[cell + 1].run].id)
    /\ log' = Append(log, [op |-> "fit", model |-> names[CellOrder[cell + 1].run].id])
    /\ cell' = cell + 1
    /\ UNCHANGED <<names, files, dataVars, gridVars, trialVars, modelVars, resultVars, phase>>

\* KerasClassifier(...), param_grid = dict(...), grid = GridSearchCV(...)
SearchCell ==
    /\ NextCellIs("search")
    /\ search' = CellOrder[cell + 1].search
    /\ param_grid' \in Grids(CellOrder[cell + 1].search)
    /\ cv' \in 2 .. MaxFolds
    /\ GridSize(param_grid') * cv' <= MaxBookTrials
    /\ phase' = "new"
    /\ candidate_params' = <<>>
    /\ splits' = <<>>
    /\ trials' = <<>>
    /\ out' = <<>>
    /\ reordered' = FALSE
    /\ cv_results_' = NoResults
    /\ best_index_' = 0
    /\ best_estimator_' = NoModel
    /\ printed' = <<>>
    /\ log' = Append(log, [op |-> "search", model |-> NoModel])
    /\ cell' = cell + 1
    /\ UNCHANGED <<names, files, fitVars, dataVars, modelVars>>

DenseLayer(units, activation, init) ==
    [class_name |-> "Dense", units |-> units, activation |-> activation,
     kernel_initializer |-> init, rate |-> 0]

\* Dropout(0.1): the rate in tenths
DropoutLayer ==
    [class_name |-> "Dropout", units |-> 0, activation |-> "none",
     kernel_initializer |-> "none", rate |-> 1]

\* the layers every network of the notebook is built from
Layers(w) ==
    << DenseLayer(64, "relu", w.init), DropoutLayer,
       DenseLayer(64, "relu", w.init), DenseLayer(num_classes, "softmax", w.init) >>

\* model.to_json(): the architecture, neither weights nor optimizer
to_json(w) == [class_name |-> "Sequential", layers |-> Layers(w)]

\* model.save_weights("model.h5")
save_weights(w) == [epochs_run |-> w.epochs_run, seen |-> w.seen]

\* keras.models.model_from_json: a new uncompiled model of that architecture
model_from_json(json) ==
    [init |-> json.layers[1].kernel_initializer, optimizer |-> "none",
     epochs_run |-> 0, seen |-> {}]

\* model.predict(row): decided by the layers and the weights, not by the optimizer
predict(w, row) == [layers |-> Layers(w), weights |-> save_weights(w), input |-> row]

\* a load that leaves the freshly initialised weights in place
load_weights_skipped(w, h5) == w

load_weights(w, h5) == [w EXCEPT !.epochs_run = h5.epochs_run, !.seen = h5.seen]

\* a save cell that writes the estimator the search selected
SaveTargetBest == best_estimator_

\* the object the save cell serialises: the global name model
SaveTarget == names["model"].id

\* from keras.models import model_from_json
ImportLoader(ns) == [ns EXCEPT !["model_from_json"] = [kind |-> "function", id |-> NoModel]]

\* a namespace in which the loader survives under its name whatever was assigned
LoaderStaysBound(ns) == ns["model_from_json"].kind \in {"function", "model"}

\* the name model_from_json still refers to the imported function
LoaderBound(ns) == ns["model_from_json"].kind = "function"

\* the save/load cell: write model.json and model.h5, read both back
SaveLoadCell ==
    /\ NextCellIs("save")
    /\ SaveTarget \in DOMAIN models
    /\ LoaderBound(ImportLoader(names))
    /\ files' = ("model.json" :> to_json(models[SaveTarget]))
                @@ ("model.h5" :> save_weights(models[SaveTarget])) @@ files
    /\ models' = (NewModelId :>
                    load_weights(model_from_json(to_json(models[SaveTarget])),
                                 save_weights(models[SaveTarget]))) @@ models
    /\ built' = Append(built, NewModelId)
    /\ names' = [ImportLoader(names) EXCEPT
                    !["model_from_json"] = [kind |-> "model", id |-> NewModelId]]
    /\ log' = Append(log, [op |-> "save", model |-> SaveTarget])
    /\ cell' = cell + 1
    /\ UNCHANGED <<fitVars, dataVars, gridVars, trialVars, resultVars, phase>>

InitNotebook ==
    /\ BookIdle
    /\ fit = FitIdle
    /\ x_train = PreparedX(MaxSamples)
    /\ y_train = PreparedY(MaxSamples)
    /\ TestPrepared
    /\ models = <<>>
    /\ built = <<>>
    /\ search = 0
    /\ param_grid = <<>>
    /\ cv = 0
    /\ phase = "none"
    /\ SearchIdle

NextNotebook ==
    \/ BuildCell
    \/ FitCell
    \/ FitStart
    \/ FitEpochBegin
    \/ FitBatch
    \/ FitEpochEnd
    \/ SearchCell
    \/ GridFitStart
    \/ \E t \in 1 .. MaxBookTrials + 1 : TrialFit(t)
    \/ \E t \in 1 .. MaxBookTrials + 1, s \in Scores : TrialScore(t, s)
    \/ GridFormat
    \/ RefitBuild
    \/ RefitTrain
    \/ PrintResults
    \/ SaveLoadCell

SpecNotebook == InitNotebook /\ [][NextNotebook]_vars

----------------------------------------------------------------------------
(* A session: the notebook run top to bottom, with the save/load cell or     *)
(* single lines of it run again by hand between cells                        *)

\* the cells run so far that enter the log
LoggedCells == Cardinality({i \in 1 .. cell : CellOrder[i].kind # "build"})

SessionOps == Len(log) - LoggedCells

SaveCellHasRun == \E i \in 1 .. cell : CellOrder[i].kind = "save"

ByHand ==
    /\ CellDone
    /\ SaveCellHasRun
    /\ SessionOps < MaxSessionOps

\* the whole save/load cell once more
SaveLoadCellAgain ==
    /\ ByHand
    /\ SaveTarget \in DOMAIN models
    /\ LoaderBound(ImportLoader(names))
    /\ files' = ("model.json" :> to_json(models[SaveTarget]))
                @@ ("model.h5" :> save_weights(models[SaveTarget])) @@ files
    /\ models' = (NewModelId :>
                    load_weights(model_from_json(to_json(models[SaveTarget])),
                                 save_weights(models[SaveTarget]))) @@ models
    /\ built' = Append(built, NewModelId)
    /\ names' = [ImportLoader(names) EXCEPT
                    !["model_from_json"] = [kind |-> "model", id |-> NewModelId]]
    /\ log' = Append(log, [op |-> "save", model |-> SaveTarget])
    /\ UNCHANGED <<cell, fitVars, dataVars, gridVars, trialVars, resultVars, phase>>

\* the import line alone
ImportAlone ==
    /\ ByHand
    /\ names' = ImportLoader(names)
    /\ log' = Append(log, [op |-> "import", model |-> NoModel])
    /\ UNCHANGED <<cell, files, fitVars, dataVars, gridVars, trialVars, modelVars,
                   resultVars, phase>>

\* the line model_from_json = model_from_json(saved_model) alone: the loader
\* builds a model, anything else under that name raises
LoadCallAlone ==
    /\ ByHand
    /\ IF LoaderBound(names)
       THEN /\ models' = (NewModelId :> model_from_json(files["model.json"])) @@ models
            /\ built' = Append(built, NewModelId)
            /\ names' = [names EXCEPT
                            !["model_from_json"] = [kind |-> "model", id |-> NewModelId]]
            /\ log' = Append(log, [op |-> "load", model |-> NewModelId])
       ELSE /\ log' = Append(log, [op |-> "call_error", model |-> names["model_from_json"].id])
            /\ UNCHANGED <<models, built, names>>
    /\ UNCHANGED <<cell, files, fitVars, dataVars, gridVars, trialVars, resultVars, phase>>

NextSession ==
    \/ BuildCell
    \/ FitCell
    \/ FitStart
    \/ FitEpochBegin
    \/ FitBatch
    \/ FitEpochEnd
    \/ SearchCell
    \/ GridFitStart
    \/ \E t \in 1 .. MaxBookTrials + 1 : TrialFit(t)
    \/ \E t \in 1 .. MaxBookTrials + 1, s \in Scores : TrialScore(t, s)
    \/ GridFormat
    \/ RefitBuild
    \/ RefitTrain
    \/ PrintResults
    \/ SaveLoadCell
    \/ SaveLoadCellAgain
    \/ ImportAlone
    \/ LoadCallAlone

SpecSession == InitNotebook /\ [][NextSession]_vars

----------------------------------------------------------------------------
(* Data preparation cells: x / 255.0, reshape(N, 784), to_categorical *)

ImgSide == 28
Features == 784
MaxPixel == 255

\* an image of the raw set: every pixel value 0..255 occurs for pattern 1
RawImage(k, i) ==
    [r \in 1 .. ImgSide |->
        [c \in 1 .. ImgSide |-> (k * (5 * i + ImgSide * (r - 1) + (c - 1))) % (MaxPixel + 1)]]

RawLabels(n, a, b) == [i \in 1 .. n |-> a + (i - 1) * b]

LabelRange == (0 - num_classes - 1) .. (num_classes + 1)

\* the raw sets tried: two pixel patterns; label arrays a, a + b, a + 2b, ...
PixelPatterns == {1, 2}
LabelSteps == {-1, 0, 1}

\* x / 255.0, in fixed point
Normalize(x) ==
    [i \in 1 .. Len(x) |->
        [r \in 1 .. Len(x[i]) |->
            [c \in 1 .. Len(x[i][r]) |-> (x[i][r][c] * LrScale) \div MaxPixel]]]

ElementCount(x) ==
    SumSeq([i \in 1 .. Len(x) |-> SumSeq([r \in 1 .. Len(x[i]) |-> Len(x[i][r])])])

\* element p (from 0) of an array read column by column
FlatAtColumnMajor(x, p) ==
    x[(p \div (Len(x[1]) * Len(x[1][1]))) + 1]
     [(p % Len(x[1])) + 1]
     [((p % (Len(x[1]) * Len(x[1][1]))) \div Len(x[1])) + 1]

\* element p (from 0) of a 3-d array in C order
FlatAt(x, p) ==
    x[(p \div (Len(x[1]) * Len(x[1][1]))) + 1]
     [((p % (Len(x[1]) * Len(x[1][1]))) \div Len(x[1][1])) + 1]
     [(p % Len(x[1][1])) + 1]

\* ndarray.reshape(n, d): ValueError unless the element counts agree
reshape(x, n, d) ==
    [ok |-> ElementCount(x) = n * d,
     value |-> IF ElementCount(x) = n * d
               THEN [i \in 1 .. n |-> [j \in 1 .. d |-> FlatAt(x, (i - 1) * d + (j - 1))]]
               ELSE x]

\* a[..., y] for an axis of that size: IndexError outside -size .. size - 1
IndexInBounds(y, size) == 0 - size <= y /\ y < size

\* an index taken one too far
NumpyIndexShifted(y, size) == (y + 1) % size

\* numpy indexing: a negative index counts from the end
NumpyIndex(y, size) == IF y >= 0 THEN y ELSE y + size

\* keras.utils.to_categorical(y, k): zeros((n, k)); categorical[arange(n), y] = 1
to_categorical(y, k) ==
    [ok |-> \A i \in 1 .. Len(y) : IndexInBounds(y[i], k),
     value |-> IF \A i \in 1 .. Len(y) : IndexInBounds(y[i], k)
               THEN [i \in 1 .. Len(y) |->
                       [c \in 1 .. k |-> IF c = NumpyIndex(y[i], k) + 1 THEN 1 ELSE 0]]
               ELSE y]

NormalizeCell ==
    /\ prep = "raw"
    /\ x_train' = Normalize(x_train)
    /\ x_test' = Normalize(x_test)
    /\ prep' = "normalized"
    /\ UNCHANGED <<y_train, y_test, raw, bookVars, fitVars, gridVars, trialVars, modelVars,
                   resultVars, phase>>

\* x_train.reshape(60000, 784); x_test.reshape(10000, 784): the sample counts
\* of the loaded arrays
ReshapeCell ==
    /\ prep = "normalized"
    /\ LET tr == reshape(x_train, Len(raw.x_train), Features)
           te == reshape(x_test, Len(raw.x_test), Features)
       IN  /\ x_train' = tr.value
           /\ x_test' = IF tr.ok THEN te.value ELSE x_test
           /\ prep' = IF tr.ok /\ te.ok THEN "reshaped" ELSE "error"
    /\ UNCHANGED <<y_train, y_test, raw, bookVars, fitVars, gridVars, trialVars, modelVars,
                   resultVars, phase>>

\* y_train = to_categorical(y_train, num_classes), then the same for y_test
EncodeCell ==
    /\ prep = "reshaped"
    /\ LET tr == to_categorical(y_train, num_classes)
           te == to_categorical(y_test, num_classes)
       IN  /\ y_train' = tr.value
           /\ y_test' = IF tr.ok THEN te.value ELSE y_test
           /\ prep' = IF tr.ok /\ te.ok THEN "encoded" ELSE "error"
    /\ UNCHANGED <<x_train, x_test, raw, bookVars, fitVars, gridVars, trialVars, modelVars,
                   resultVars, phase>>

TestLabels == {num_classes - 1, num_classes}

InitPrepare ==
    /\ \E n \in 1 .. MaxRawSamples, k \in PixelPatterns :
          /\ x_train = [i \in 1 .. n |-> RawImage(k, i)]
          /\ x_test = << RawImage(k, n + 1) >>
    /\ \E a \in LabelRange, b \in LabelSteps :
          y_train = RawLabels(Len(x_train), a, b)
    /\ \E t \in TestLabels : y_test = <<t>>
    /\ raw = [x_train |-> x_train, y_train |-> y_train, x_test |-> x_test, y_test |-> y_test]
    /\ prep = "raw"
    /\ fit = FitIdle
    /\ BookIdle
    /\ search = 0
    /\ param_grid = <<>>
    /\ cv = 0
    /\ phase = "none"
    /\ models = <<>>
    /\ built = <<>>
    /\ SearchIdle

NextPrepare ==
    \/ NormalizeCell
    \/ ReshapeCell
    \/ EncodeCell

SpecPrepare == InitPrepare /\ [][NextPrepare]_vars

----------------------------------------------------------------------------
(* Claims *)

Formatted == phase \in {"formatted", "refit", "fitted", "reported"}

InGrid(cfg, grid) ==
    /\ Len(cfg) = Len(grid)
    /\ \A i \in 1 .. Len(grid) :
          \E j \in 1 .. Len(cfg) :
              /\ cfg[j][1] = grid[i][1]
              /\ \E v \in 1 .. Len(grid[i][2]) : grid[i][2][v] = cfg[j][2]

Distinct(s) == \A i, j \in 1 .. Len(s) : i # j => s[i] # s[j]

\* C1: once grid.fit has returned, cv_results_ holds exactly one record (params,
\* mean, std) per element of the Cartesian product of the candidate lists: as many
\* records as the product of the list lengths, each a combination of the grid, no
\* two alike; the report prints one line per record; both notebook grids give 8.
C1_Exhaustive ==
    /\ Formatted =>
          /\ Len(cv_results_.params) = GridSize(param_grid)
          /\ Len(cv_results_.mean_test_score) = GridSize(param_grid)
          /\ Len(cv_results_.std_test_score) = GridSize(param_grid)
          /\ \A c \in 1 .. Len(cv_results_.params) :
                InGrid(cv_results_.params[c], param_grid)
          /\ Distinct(cv_results_.params)
    /\ phase = "reported" =>
          /\ Len(printed) = 1 + GridSize(param_grid)
          /\ \A c \in 1 .. GridSize(param_grid) :
                printed[c + 1].param = cv_results_.params[c]
    /\ Len(ParameterGrid(ParamGrid1)) = 8
    /\ Len(ParameterGrid(ParamGrid2)) = 8
    /\ Distinct(ParameterGrid(ParamGrid2))

C1_Witness ==
    /\ phase = "reported"
    /\ Len(param_grid) = 3
    /\ Len(cv_results_.params) = 4

Dominant(d) ==
    \A c \in 1 .. NCand : c # d =>
        \A f \in 1 .. NSplits : out[TrialOf(d, f)] > out[TrialOf(c, f)]

\* C2: the configuration reported as best has the largest mean score of all
\* enumerated configurations, and a configuration that scores strictly higher than
\* every other one on every fold is the one reported.
C2_BestHasMaxMean ==
    /\ Formatted =>
          /\ best_index_ \in 1 .. NCand
          /\ \A c \in 1 .. NCand :
                cv_results_.mean_test_score[best_index_] >= cv_results_.mean_test_score[c]
          /\ \A d \in 1 .. NCand : Dominant(d) => best_index_ = d
    /\ phase = "reported" =>
          /\ printed[1].best_params = candidate_params[best_index_]
          /\ printed[1].best_score = SumSeq(FoldScores(out, NSplits, best_index_))

C2_Witness ==
    /\ phase = "reported"
    /\ NCand >= 2
    /\ Dominant(2)
    /\ best_index_ = 2

MaxMean(res, c) ==
    \A d \in DOMAIN res.mean_test_score :
        res.mean_test_score[c] >= res.mean_test_score[d]

\* the selection the tie-break rule describes: largest mean, then smallest
\* deviation, then first in enumeration order
TieBreakBest(res) ==
    CHOOSE c \in DOMAIN res.mean_test_score :
        /\ MaxMean(res, c)
        /\ \A d \in DOMAIN res.mean_test_score :
              MaxMean(res, d) => res.std_test_score[c] <= res.std_test_score[d]
        /\ \A d \in DOMAIN res.mean_test_score :
              (d < c /\ MaxMean(res, d)) => res.std_test_score[d] > res.std_test_score[c]

\* C3 as stated: among the configurations of largest mean the one of smallest
\* standard deviation is selected, and the first of those when that ties too.
C3_TieBreakByStd == Formatted => best_index_ = TieBreakBest(cv_results_)

\* C3, amended: among the configurations of largest mean the first in enumeration
\* order is selected, whatever the standard deviations are; so it is also the
\* first when mean and deviation both tie.
C3_FirstOfMaxMean ==
    Formatted =>
        /\ best_index_ \in 1 .. NCand
        /\ MaxMean(cv_results_, best_index_)
        /\ \A c \in 1 .. NCand : MaxMean(cv_results_, c) => best_index_ <= c

C3_Witness ==
    /\ phase = "reported"
    /\ \E c \in 1 .. NCand :
          /\ c > best_index_
          /\ MaxMean(cv_results_, c)
          /\ cv_results_.std_test_score[c] < cv_results_.std_test_score[best_index_]

OtherFolds(f) == UNION {splits[g].test : g \in (1 .. NSplits) \ {f}}

\* C4: the rows are split into cv groups, pairwise disjoint, of sizes differing by
\* at most one, covering every row; every candidate has exactly one trial per
\* group, and the predictor of a trial was fitted on exactly the other groups,
\* never on a row of its held-out group.
C4_KFoldPartition ==
    phase # "new" =>
        /\ NSplits = cv
        /\ \A f, g \in 1 .. NSplits : f # g => splits[f].test \cap splits[g].test = {}
        /\ UNION {splits[f].test : f \in 1 .. NSplits} = 1 .. Len(x_train)
        /\ \A f, g \in 1 .. NSplits :
              Cardinality(splits[f].test) - Cardinality(splits[g].test) \in {-1, 0, 1}
        /\ \A c \in 1 .. NCand, f \in 1 .. NSplits :
              Cardinality({t \in DOMAIN trials : CandOf(t) = c /\ FoldOf(t) = f}) = 1
        /\ \A t \in DOMAIN trials : trials[t].status = "fitted" =>
              /\ models[trials[t].model].seen = OtherFolds(FoldOf(t))
              /\ models[trials[t].model].seen \cap splits[FoldOf(t)].test = {}

C4_Witness ==
    /\ cv = 3
    /\ Len(x_train) % cv # 0
    /\ \E t \in DOMAIN trials : trials[t].status = "fitted" /\ FoldOf(t) = 2

\* C5: whatever order the parallel trials finish in, the means and deviations
\* exist only once every fold result of every configuration is recorded, and the
\* mean and deviation of a configuration are those of its own cv fold results.
C5_AggregateAfterAllFolds ==
    cv_results_ # NoResults =>
        /\ \A t \in DOMAIN trials : trials[t].status = "done" /\ out[t] \in Nat
        /\ \A c \in 1 .. NCand :
              LET own == [f \in 1 .. cv |-> out[(c - 1) * cv + f]]
              IN  /\ cv_results_.mean_test_score[c] = SumSeq(own)
                  /\ cv_results_.std_test_score[c] =
                        cv * SumSeq([f \in 1 .. cv |-> own[f] * own[f]])
                        - SumSeq(own) * SumSeq(own)

C5_Witness ==
    /\ Formatted
    /\ reordered
    /\ \E c, d \in 1 .. NCand :
          cv_results_.mean_test_score[c] # cv_results_.mean_test_score[d]

\* C6: no step of a search changes the training arrays, the grid or a candidate
\* configuration once enumerated.
C6_SharedDataReadOnly ==
    [][/\ x_train' = x_train
       /\ y_train' = y_train
       /\ param_grid' = param_grid
       /\ phase # "new" => candidate_params' = candidate_params]_vars

C6_Witness ==
    /\ phase = "fitted"
    /\ search = 1
    /\ NCand >= 2
    /\ x_train = PreparedX(Len(x_train))
    /\ candidate_params = ParameterGrid(param_grid)

\* C7: no two builder calls return the same predictor, no two trials (nor the
\* refitted estimator) hold the same one, and the weights of a trial's predictor
\* come from that trial's own configuration and training rows alone.
C7_FreshPredictors ==
    /\ Distinct(built)
    /\ \A t, u \in DOMAIN trials :
          (t # u /\ trials[t].model # NoModel) => trials[t].model # trials[u].model
    /\ \A t \in DOMAIN trials : trials[t].status = "fitted" =>
          /\ best_estimator_ # trials[t].model
          /\ models[trials[t].model] =
                [init |-> InitOf(search, candidate_params[CandOf(t)]),
                 optimizer |-> "rmsprop",
                 epochs_run |-> EpochsOf(search, candidate_params[CandOf(t)]),
                 seen |-> splits[FoldOf(t)].train]
    /\ phase \in {"fitted", "reported"} =>
          /\ \A t \in DOMAIN trials : trials[t].model # best_estimator_
          /\ models[best_estimator_].seen = 1 .. Len(x_train)
          /\ models[best_estimator_].epochs_run =
                EpochsOf(search, candidate_params[best_index_])

C7_Witness ==
    \E t, u \in Running :
        /\ t # u
        /\ models[trials[t].model].seen # models[trials[u].model].seen

HistoryInOrder(h) == \A i \in 1 .. Len(h) : h[i].epoch = i - 1

C8_Counts ==
    /\ fit.pc \in {"epoch_begin", "batches", "done"} =>
          \A h \in DOMAIN fit.histories :
              /\ Len(fit.histories[h]) = fit.epoch
              /\ HistoryInOrder(fit.histories[h])
    /\ fit.pc = "done" =>
          /\ fit.returned \in DOMAIN fit.histories
          /\ Len(fit.histories[fit.returned]) = RunConfig(fit.run).epochs
    /\ (fit.pc = "done" /\ fit.run = "exponential_decay_model") =>
          /\ fit.returned # "loss_history"
          /\ Len(fit.histories[fit.returned]) = 60
          /\ Len(fit.histories["loss_history"]) = 60

C8_AppendOnly ==
    fit.pc # "ready" =>
        \A h \in DOMAIN fit.histories :
            /\ h \in DOMAIN fit'.histories
            /\ Len(fit'.histories[h]) \in {Len(fit.histories[h]), Len(fit.histories[h]) + 1}
            /\ SubSeq(fit'.histories[h], 1, Len(fit.histories[h])) = fit.histories[h]

\* C8: during a fit every History holds one record per completed pass, in epoch
\* order; a step of the fit appends at most one record and leaves the earlier
\* ones as they were; after the fit the returned History holds epochs records,
\* and in the exponential-decay run both the History passed in and the one fit
\* created hold 60.
C8_HistoryLength == []C8_Counts /\ [][C8_AppendOnly]_vars

C8_Witness ==
    /\ fit.pc = "done"
    /\ fit.run = "exponential_decay_model"
    /\ Len(fit.histories["history"]) = 60
    /\ Len(fit.histories["loss_history"]) = 60

Near(x, y, tol) == x - y <= tol /\ y - x <= tol

\* C9: in the exponential-decay run the learning rate recorded for epoch e is
\* exp_decay(e) = 0.1 * e^(-0.1 e) (0.0367879 at e = 10, 0.000273944 at e = 59,
\* to the resolution of the fixed point); the first record holds lr0 = 0.1 and
\* every later record holds less than the one before it.
C9_ExponentialSchedule ==
    /\ Near(exp_decay(10), 36788, 3)
    /\ Near(exp_decay(59), 274, 3)
    /\ (fit.run = "exponential_decay_model" /\ "history" \in DOMAIN fit.histories) =>
          LET h == fit.histories["history"]
          IN  \A i \in 1 .. Len(h) :
                  /\ h[i].lr = exp_decay(i - 1)
                  /\ i = 1 => h[i].lr = LrScale \div 10
                  /\ i > 1 => h[i].lr < h[i - 1].lr

C9_Witness ==
    /\ fit.pc = "done"
    /\ fit.run = "exponential_decay_model"
    /\ Len(fit.histories["history"]) = 60
    /\ fit.histories["history"][60].lr = exp_decay(59)
    /\ fit.histories["history"][60].lr < fit.histories["history"][59].lr

IsSave(e) == e.op = "save"

Saves == SelectSeq(log, IsSave)

WorkflowDone == cell = Len(CellOrder) /\ CellDone

\* C10 as stated: the save is performed exactly once, on the estimator the
\* search selected, and it is the last operation: nothing trains or searches
\* after it.
C10_PersistenceTerminal ==
    \A i \in DOMAIN log :
        IsSave(log[i]) =>
            /\ Len(Saves) = 1
            /\ best_estimator_ # NoModel
            /\ log[i].model = best_estimator_
            /\ i = Len(log)

\* C10 amended: the save is performed at most once in a run and exactly once in
\* a complete one; it writes the network bound to the global name model, the
\* one the RMSprop cell fitted for 60 epochs and no estimator a search selected;
\* a search was started before it and, in a complete run, another one after it;
\* model.json and model.h5 are the only files and keep holding that network.
C10_SaveOnceOnGlobalModel ==
    /\ Len(Saves) <= 1
    /\ WorkflowDone => Len(Saves) = 1
    /\ Len(Saves) = 0 => files = <<>>
    /\ \A i \in DOMAIN log :
          IsSave(log[i]) =>
              /\ log[i].model = names["model"].id
              /\ log[i].model # best_estimator_
              /\ \E j \in 1 .. i - 1 : log[j] = [op |-> "fit", model |-> log[i].model]
              /\ \E j \in 1 .. i - 1 : log[j].op = "search"
              /\ WorkflowDone => \E j \in i + 1 .. Len(log) : log[j].op = "search"
              /\ DOMAIN files = {"model.json", "model.h5"}
              /\ files["model.json"] = to_json(models[names["model"].id])
              /\ files["model.h5"] = save_weights(models[names["model"].id])
              /\ files["model.h5"].epochs_run = RunConfig("model").epochs

C10_Witness ==
    /\ WorkflowDone
    /\ search = 2
    /\ best_estimator_ # NoModel
    /\ Len(Saves) = 1
    /\ Len(built) > Saves[1].model + 2
    /\ files["model.h5"].epochs_run = 60

RoundTrip(w) == load_weights(model_from_json(to_json(w)), save_weights(w))

SameModel(a, b) ==
    /\ Layers(a) = Layers(b)
    /\ save_weights(a) = save_weights(b)
    /\ \A i \in DOMAIN x_train : predict(a, x_train[i]) = predict(b, x_train[i])

NothingSearched ==
    /\ built = <<>>
    /\ models = <<>>
    /\ trials = <<>>
    /\ out = <<>>
    /\ cv_results_ = NoResults
    /\ best_index_ = 0
    /\ best_estimator_ = NoModel
    /\ printed = <<>>

\* C12 as stated: with an empty search space (no hyperparameter at all, or one
\* without values) or with cv < 2 the search never gets past its error: no
\* model is built, no score recorded, no best configuration chosen.
C12_FailFast ==
    (param_grid = <<>> \/ EmptyValues(param_grid) \/ cv < 2) =>
        (phase \in {"new", "error"} /\ NothingSearched)

\* C12 amended: the search ends in its error, with no model built, no score
\* and no best configuration, exactly when a hyperparameter has no values or
\* cv < 2; a grid without any hyperparameter is no error: it is searched as the
\* one configuration of the estimator's defaults.
C12_FailFastOnEmptyValuesOrCv ==
    /\ (EmptyValues(param_grid) \/ cv < 2) =>
          (phase \in {"new", "error"} /\ NothingSearched)
    /\ phase = "error" => (EmptyValues(param_grid) \/ cv < 2)
    /\ (param_grid = <<>> /\ phase # "new" /\ cv >= 2) =>
          /\ phase # "error"
          /\ candidate_params = << <<>> >>
          /\ Len(trials) = cv
          /\ Formatted => (best_index_ = 1 /\ Len(cv_results_.params) = 1)

C12_Witness ==
    /\ phase = "error"
    /\ cv = 1
    /\ param_grid # <<>>
    /\ ~EmptyValues(param_grid)

InClassRange(y) == \A i \in 1 .. Len(y) : 0 <= y[i] /\ y[i] < num_classes

\* the position of the first largest entry, counted from 0
Argmax(row) ==
    (CHOOSE c \in 1 .. Len(row) :
        /\ \A d \in 1 .. Len(row) : row[d] <= row[c]
        /\ \A d \in 1 .. c - 1 : row[d] < row[c]) - 1

Decodes(enc, labels) ==
    /\ Len(enc) = Len(labels)
    /\ \A i \in 1 .. Len(enc) :
          /\ Len(enc[i]) = num_classes
          /\ Cardinality({c \in 1 .. num_classes : enc[i][c] = 1}) = 1
          /\ \A c \in 1 .. num_classes : enc[i][c] \in {0, 1}
          /\ Argmax(enc[i]) = labels[i]
    /\ \A i, j \in 1 .. Len(enc) : labels[i] # labels[j] => enc[i] # enc[j]

\* C13: label arrays with every value in 0 .. num_classes - 1 are encoded
\* without error; row i has num_classes entries, a single 1 and otherwise 0,
\* the 1 at the position of label i, and different labels give different rows.
C13_OneHotInvertible ==
    /\ (InClassRange(raw.y_train) /\ InClassRange(raw.y_test)) => prep # "error"
    /\ (prep = "encoded" /\ InClassRange(raw.y_train)) => Decodes(y_train, raw.y_train)
    /\ (prep = "encoded" /\ InClassRange(raw.y_test)) => Decodes(y_test, raw.y_test)

C13_Witness ==
    /\ prep = "encoded"
    /\ InClassRange(raw.y_train)
    /\ Len(y_train) = 2
    /\ raw.y_train[1] = num_classes - 1
    /\ raw.y_train[2] = num_classes - 2
    /\ y_train[1] # y_train[2]

\* C14: once the encoding cell has run on an array holding a label below 0 or
\* above num_classes - 1, it has failed and that array is still the raw one.
C14_OutOfRangeRejected ==
    prep \in {"encoded", "error"} =>
        /\ ~InClassRange(raw.y_train) => (prep = "error" /\ y_train = raw.y_train)
        /\ ~InClassRange(raw.y_test) => (prep = "error" /\ y_test = raw.y_test)

PixelsOf(x) == {x[i][j] : i \in 1 .. Len(x), j \in 1 .. Features}

Prepared(x, r) ==
    /\ Len(x) = Len(r)
    /\ Len(x) * Features = ElementCount(r)
    /\ \A i \in 1 .. Len(x) :
          /\ Len(x[i]) = Features
          /\ \A a \in 1 .. ImgSide, b \in 1 .. ImgSide :
                /\ x[i][(a - 1) * ImgSide + b] * MaxPixel <= r[i][a][b] * LrScale
                /\ x[i][(a - 1) * ImgSide + b] * MaxPixel > r[i][a][b] * LrScale - MaxPixel
                /\ x[i][(a - 1) * ImgSide + b] >= 0
                /\ x[i][(a - 1) * ImgSide + b] <= LrScale
                /\ r[i][a][b] = 0 => x[i][(a - 1) * ImgSide + b] = 0
                /\ r[i][a][b] = MaxPixel => x[i][(a - 1) * ImgSide + b] = LrScale

\* C15: after normalisation and reshape every feature is the raw pixel divided
\* by 255, between 0 and 1, with 0 for pixel 0 and 1 for pixel 255; the N
\* images have become N rows of 784 features, row i holding image i row by
\* row, N * 784 elements in all; each split has as many rows as labels.
C15_PreparedRangeAndShape ==
    /\ Len(x_train) = Len(y_train)
    /\ Len(x_test) = Len(y_test)
    /\ prep \in {"reshaped", "encoded"} =>
          (Prepared(x_train, raw.x_train) /\ Prepared(x_test, raw.x_test))
    /\ prep = "normalized" =>
          \A i \in 1 .. Len(x_train), a \in 1 .. ImgSide, b \in 1 .. ImgSide :
              x_train[i][a][b] \in 0 .. LrScale

C15_Witness ==
    /\ prep = "reshaped"
    /\ Len(x_train) = 2
    /\ 0 \in PixelsOf(x_train)
    /\ LrScale \in PixelsOf(x_train)
    /\ x_train[1] # x_train[2]

C16_RunsWithSchedule ==
    (HasCallback(fit, "lr_rate") /\ fit.pc = "batches") =>
        /\ fit.optimizer.lr = exp_decay(fit.epoch)
        /\ fit.batch > 0 =>
              fit.optimizer.applied = EffectiveLr([fit.optimizer EXCEPT !.iterations = @ - 1])

C16_SetBetweenPasses ==
    /\ (fit.pc = "batches" /\ fit'.pc = "batches") => fit'.optimizer.lr = fit.optimizer.lr
    /\ fit'.optimizer.lr # fit.optimizer.lr =>
          /\ fit.pc = "epoch_begin"
          /\ HasCallback(fit, "lr_rate")
          /\ fit'.optimizer.lr = exp_decay(fit.epoch)
          /\ fit'.batch = 0

\* C16: in a fit with the schedule callback every pass e, the first included,
\* makes all its updates with the optimizer's learning rate at schedule(e); the
\* learning rate changes only in the step that opens a pass, after the pass
\* before has ended and before the first batch, never between two batches.
C16_ScheduleTiming == []C16_RunsWithSchedule /\ [][C16_SetBetweenPasses]_vars

C16_Witness ==
    /\ fit.run = "exponential_decay_model"
    /\ fit.pc = "batches"
    /\ fit.epoch = 1
    /\ fit.steps = 2
    /\ fit.batch = 1
    /\ fit.optimizer.lr = exp_decay(1)
    /\ fit.optimizer.lr < learning_rate

\* C17: the fit of lr_model has run with SGD at learning rate 0.1 and momentum
\* 0.8 for 60 epochs, with the decay argument 0.1 / 60, which is learning_rate
\* divided by the epochs passed to fit.
C17_BuiltinDecayAsDocumented ==
    (fit.run = "lr_model" /\ fit.pc = "done") =>
        /\ fit.optimizer.name = "sgd"
        /\ fit.optimizer.lr = LrScale \div 10
        /\ fit.optimizer.momentum = 8 * (LrScale \div 10)
        /\ fit.epochs = 60
        /\ Len(fit.histories[fit.returned]) = 60
        /\ fit.optimizer.decay = (LrScale \div 10) \div 60
        /\ fit.optimizer.decay = fit.optimizer.lr \div fit.epochs

LastRecord(h) == h[Len(h)]

SearchStep == phase \notin {"none", "reported"} \/ phase' \notin {"none", "reported"}

C19_SearchKeepsModel ==
    (SearchStep /\ names["model"].kind = "model") =>
        /\ names'["model"] = names["model"]
        /\ models'[names["model"].id] = models[names["model"].id]

C19_SavedIsStepFourModel ==
    files # <<>> =>
        /\ fit.run = "model"
        /\ fit.pc = "done"
        /\ fit.model = names["model"].id
        /\ fit.epochs = 60
        /\ fit.batch_size = input_dim
        /\ fit.optimizer.name = "rmsprop"
        /\ models[names["model"].id] =
              [SequentialUniform("rmsprop") EXCEPT !.epochs_run = 60,
                                                   !.seen = 1 .. Len(x_train)]
        /\ files["model.h5"] = save_weights(models[fit.model])
        /\ files["model.json"].layers = Layers(SequentialUniform("rmsprop"))
        /\ \A m \in DOMAIN models : m # names["model"].id => models[m] # models[names["model"].id]

\* C19: no step of either grid search, from building the search to its report,
\* rebinds the global name model or changes the network it names; what the
\* save cell wrote is the RMSprop network of Step 4, fitted for 60 epochs with
\* batch size 784, whichever configuration the search selected.
C19_SearchLeavesGlobalModel == [][C19_SearchKeepsModel]_vars /\ []C19_SavedIsStepFourModel

C19_Witness ==
    /\ WorkflowDone
    /\ search = 2
    /\ files # <<>>
    /\ best_index_ = 2
    /\ best_estimator_ # names["model"].id
    /\ models[best_estimator_].epochs_run # models[names["model"].id].epochs_run
    /\ names["model"].id = fit.model

LoaderName == names["model_from_json"]

C20_LoadedUnderOneName ==
    /\ SaveCellHasRun => LoaderName.kind \in {"model", "function"}
    /\ (SaveCellHasRun /\ SessionOps = 0) => LoaderName.kind = "model"
    /\ LoaderName.kind = "model" =>
          /\ LoaderName.id \in DOMAIN models
          /\ \A n \in GlobalNames \ {"model_from_json"} : names[n].id # LoaderName.id

C20_CallAfterRebinding ==
    Len(log') = Len(log) + 1 =>
        /\ LastRecord(log').op = "save" =>
              /\ names'["model_from_json"] = [kind |-> "model", id |-> Len(built')]
              /\ Len(built') = Len(built) + 1
              /\ save_weights(models'[Len(built')]) = files'["model.h5"]
        /\ LastRecord(log').op \in {"load", "call_error"} =>
              /\ LoaderName.kind = "model" =>
                    /\ LastRecord(log').op = "call_error"
                    /\ names' = names
                    /\ models' = models
                    /\ built' = built
              /\ LoaderName.kind = "function" =>
                    /\ LastRecord(log').op = "load"
                    /\ names'["model_from_json"] = [kind |-> "model", id |-> Len(built')]
        /\ LastRecord(log').op = "import" => names'["model_from_json"].kind = "function"

\* C20: once the save/load cell has run, the name model_from_json holds the
\* loaded model, which no other global name holds; the call line run alone then
\* loads nothing and raises, unless the import line was run before it; the
\* whole cell run again imports the loader first and so loads a model again.
C20_SingleUseCell == []C20_LoadedUnderOneName /\ [][C20_CallAfterRebinding]_vars

C20_Witness ==
    /\ Len(log) >= 3
    /\ log[Len(log) - 2].op = "save"
    /\ log[Len(log) - 1].op = "call_error"
    /\ log[Len(log)].op = "save"
    /\ LoaderName = [kind |-> "model", id |-> Len(built)]
    /\ models[Len(built)].epochs_run = 60

====
